---- MODULE Spec2Model ----
(***************************************************************************)
(* Model of the Vizeval python SDK: the OpenAI wrapper's quality-gated     *)
(* retry loop (src/src/vizeval/openai_wrapper.py), the configuration       *)
(* object and result aggregate (src/src/vizeval/models.py) and the         *)
(* evaluator-kind check of the evaluation client                           *)
(* (src/src/vizeval/client.py, src/src/vizeval/evaluators.py).             *)
(*                                                                         *)
(* Scores and thresholds are Python floats; the model keeps them as        *)
(* integers in hundredths (0.8 is 80).  A Python value that may be None is *)
(* kept as a sequence of length 0 (None) or 1 (the value).  The sampling   *)
(* parameters are floats whose sums are not decimal (0.7 + 0.1 is          *)
(* 0.7999999999999999): such a float is the pair (n, d), the double d ulps *)
(* away from the double nearest to n / 1000.                               *)
(***************************************************************************)
EXTENDS Integers, Sequences, FiniteSets, TLC

\* ------------------------------------------------------------- bounds
\* Largest max_retries a caller passes to VizevalConfig in the model.
MaxRetries == 2

\* ------------------------------------------------------------- values
None == << >>
Some(v) == << v >>
IsNone(x) == x = None
Val(x) == x[1]

\* An argument value that is not a list (a tuple with the items v): told from
\* Some(v), a list, by a second component.
NotAList(v) == << v, "tuple" >>
IsList(x) == Len(x) = 1

\* evaluators.py: the Evaluator enum and AVAILABLE_EVALUATORS
AVAILABLE_EVALUATORS == {"medical", "juridical", "dummy"}

\* evaluators.py: validate_evaluator
validate_evaluator_AcceptsAll(evaluator) == TRUE

validate_evaluator(evaluator) == evaluator \in AVAILABLE_EVALUATORS

\* Inputs a caller may pass to VizevalConfig(...).
EvaluatorInputs == {"medical", "unknown_kind"}
ThresholdInputs == {-5, 0, 60, 80, 105}
MaxRetriesInputs == (-1) .. MaxRetries
ApiKeyInputs == {"", "vz_key"}

\* Scores the remote evaluator may answer with (None: it could not score).
ScoreInputs == {None, Some(0), Some(50), Some(60), Some(85)}

\* The feedback text the remote answer carries next to a score: none with no
\* score, one text below 0.8 and another from 0.8 on.
FeedbackInputs(score) ==
    IF IsNone(score) THEN None
    ELSE IF Val(score) < 80 THEN Some("Resposta incompleta")
    ELSE Some("Resposta adequada")

\* A double: d ulps above (below, d < 0) the double nearest to n / 1000.
F(n, d) == << n, d >>

\* x < y, x + y and min(x, y) on such doubles.  The sums are those IEEE 754
\* double addition gives for the steps 0.1 and 0.05 on the values
\* _adjust_parameters_for_retry meets from the requests below.
FloatLess(x, y) == x[1] < y[1] \/ (x[1] = y[1] /\ x[2] < y[2])

FloatAdd(x, y) ==
    CASE x = F(500, 0) /\ y = F(100, 0) -> F(600, 0)
      [] x = F(600, 0) /\ y = F(100, 0) -> F(700, 0)
      [] x = F(700, 0) /\ y = F(100, 0) -> F(800, -1)
      [] x = F(800, -1) /\ y = F(100, 0) -> F(900, -1)
      [] x = F(850, 0) /\ y = F(100, 0) -> F(950, 0)
      [] x = F(900, -1) /\ y = F(100, 0) -> F(1000, -1)
      [] x = F(900, 0) /\ y = F(100, 0) -> F(1000, 0)
      [] x = F(1000, 0) /\ y = F(100, 0) -> F(1100, 0)
      [] x = F(800, 0) /\ y = F(50, 0) -> F(850, 1)
      [] x = F(850, 0) /\ y = F(50, 0) -> F(900, 0)
      [] x = F(850, 1) /\ y = F(50, 0) -> F(900, 1)
      [] x = F(900, 0) /\ y = F(50, 0) -> F(950, 1)
      [] x = F(900, 1) /\ y = F(50, 0) -> F(950, 2)
      [] x = F(930, 0) /\ y = F(50, 0) -> F(980, 1)
      [] x = F(950, 0) /\ y = F(50, 0) -> F(1000, 0)
      [] x = F(1000, 0) /\ y = F(50, 0) -> F(1050, 0)

FloatMin(x, y) == IF FloatLess(y, x) THEN y ELSE x

\* The requests a caller passes to create(**kwargs): messages (absent, a
\* list, or a tuple), temperature and top_p (absent, or a float).
Message(role, content) == [role |-> role, content |-> content]

MessagesInputs ==
    { None,
      Some(<< >>),
      Some(<< Message("system", "sys") >>),
      Some(<< Message("system", "sys"), Message("user", "q1") >>),
      Some(<< Message("user", "q1"), Message("user", "q2") >>),
      NotAList(<< Message("user", "q1") >>) }
TemperatureInputs == {None, Some(F(600, 0)), Some(F(850, 0)), Some(F(1000, 0))}
TopPInputs == {None, Some(F(900, 0))}

\* The sampling parameters _adjust_parameters_for_retry is applied to on its
\* own, and how many times in a row.
MaxNudges == 6
NudgeTemperatureInputs ==
    {Some(F(500, 0)), Some(F(600, 0)), Some(F(700, 0)), Some(F(850, 0)), Some(F(900, 0)),
     Some(F(1000, 0))}
NudgeTopPInputs ==
    {None, Some(F(800, 0)), Some(F(850, 0)), Some(F(900, 0)), Some(F(930, 0)),
     Some(F(950, 0)), Some(F(1000, 0))}

KwargsInputs ==
    [messages : MessagesInputs, temperature : TemperatureInputs, top_p : TopPInputs]

\* Exceptions a provider call or an evaluator round trip may raise.
ProviderErrors == {"OpenAIError"}
EvaluatorErrors == {"VizevalAPIError"}

\* ------------------------------------------------------------- models.py
\* VizevalConfig.__post_init__: the exception it raises, or "ok".
VizevalConfig_post_init_NoRetryCheck(threshold, max_retries) ==
    IF ~(0 <= threshold /\ threshold <= 100) THEN "ValueError" ELSE "ok"

VizevalConfig_post_init(threshold, max_retries) ==
    IF ~(0 <= threshold /\ threshold <= 100) THEN "ValueError"
    ELSE IF max_retries < 0 THEN "ValueError"
    ELSE "ok"

\* The dataclass instance VizevalConfig(api_key, evaluator, threshold, max_retries).
VizevalConfig(api_key, evaluator, threshold, max_retries) ==
    [api_key |-> api_key, evaluator |-> evaluator,
     threshold |-> threshold, max_retries |-> max_retries]

\* EvaluationResponse.is_success
EvaluationResponse_is_success(evaluation) == ~IsNone(evaluation.score)

\* EvaluationResponse.passed_threshold(threshold)
EvaluationResponse_passed_threshold_Strict(evaluation, threshold) ==
    ~IsNone(evaluation.score) /\ Val(evaluation.score) > threshold

EvaluationResponse_passed_threshold(evaluation, threshold) ==
    ~IsNone(evaluation.score) /\ Val(evaluation.score) >= threshold

\* A Python value as seen by the caller of a property: a bool, or another
\* object (here the bound method object a property returns when it names a
\* method without calling it).
PyBool(b) == [kind |-> "bool", value |-> b, self |-> None]
PyBoundMethod(obj, name) == [kind |-> "method", value |-> name, self |-> Some(obj)]

\* bool(v): a bool is itself, a method object is always true.
Truthy(v) == IF v.kind = "bool" THEN v.value ELSE TRUE

\* VizevalResult.total_attempts
VizevalResult_total_attempts(r) == Len(r.attempts)

\* VizevalResult.best_score: max of the attempt scores that are not None, None
\* if there is none.
VizevalResult_best_score(r) ==
    LET scores == { r.attempts[i].score[1] :
                       i \in { j \in 1 .. Len(r.attempts) : ~IsNone(r.attempts[j].score) } }
    IN  IF scores # {} THEN Some(CHOOSE m \in scores : \A x \in scores : x <= m)
        ELSE None

\* VizevalResult.passed_threshold: returns self.final_evaluation.passed_threshold
\* (the method, not a call of it).
VizevalResult_passed_threshold(r) ==
    PyBoundMethod(r.final_evaluation, "passed_threshold")

\* ------------------------------------------------------------- client.py
\* VizevalClient.__init__: the exception it raises, or "ok".
VizevalClient_init(api_key) ==
    IF api_key = "" THEN "VizevalConfigError" ELSE "ok"

VizevalClient(api_key) == [api_key |-> api_key]

\* ------------------------------------------------------------- state
VARIABLES
    vizeval_config,   \* OpenAI.vizeval_config: None or Some(VizevalConfig)
    vizeval_client,   \* OpenAI.vizeval_client: None or Some(VizevalClient)
    requested,        \* the (threshold, max_retries) the last set_vizeval_config asked for
    last_error,       \* what that call raised, "none" if it did not
    pc,               \* where the create() call in flight stands
    kwargs,           \* the request of the next provider call (None outside a call)
    config,           \* _create_with_vizeval_retry: config (None outside a run)
    attempt,          \* the loop index of "for attempt in range(...)"
    attempts,         \* the list of RetryAttempt
    best_response,    \* None or Some(response)
    best_evaluation,  \* None or Some(evaluation)
    best_score,       \* float, starts at 0.0
    response,         \* the provider response of the current iteration
    result,           \* what create() returned: None or Some(value)
    raised,           \* the exception the call raised, "none" otherwise
    error,            \* the attributes of a VizevalAPIError evaluate() raised
    heap,             \* the objects a create() call can reach (None where values suffice)
    client,           \* the VizevalClient whose evaluate() is running (None otherwise)
    history           \* every provider/evaluator call of the run, in order

wrapper_vars == << vizeval_config, vizeval_client, requested, last_error >>
run_vars == << pc, kwargs, config, attempt, attempts, best_response, best_evaluation,
               best_score, response, result, raised, error, heap, client, history >>
vars == << vizeval_config, vizeval_client, requested, last_error, pc, kwargs, config, attempt,
           attempts, best_response, best_evaluation, best_score, response,
           result, raised, error, heap, client, history >>

Cfg == Val(config)

\* One entry of history: a call to the provider ("provider") or to
\* vizeval_client.evaluate ("evaluator") made on loop index idx with the
\* arguments args, how it ended ("returned", or the exception raised), and
\* whether a network request went out.
Call(target, idx, args, outcome, sent) ==
    [target |-> target, idx |-> idx, args |-> args, outcome |-> outcome, sent |-> sent]

ProviderCalls == { i \in 1 .. Len(history) : history[i].target = "provider" }
EvaluatorCalls == { i \in 1 .. Len(history) : history[i].target = "evaluator" }

\* ------------------------------------------------------------- openai_wrapper.py
\* OpenAI.__init__: the wrappers whose construction does not raise.
Init ==
    /\ \/ /\ vizeval_config = None
          /\ vizeval_client = None
       \/ \E k \in ApiKeyInputs, e \in EvaluatorInputs,
             t \in ThresholdInputs, m \in MaxRetriesInputs :
            /\ VizevalConfig_post_init(t, m) = "ok"
            /\ VizevalClient_init(k) = "ok"
            /\ vizeval_config = Some(VizevalConfig(k, e, t, m))
            /\ vizeval_client = Some(VizevalClient(k))
    /\ requested = None
    /\ last_error = "none"
    /\ pc = "idle"
    /\ kwargs = None
    /\ config = None
    /\ attempt = 0
    /\ attempts = << >>
    /\ best_response = None
    /\ best_evaluation = None
    /\ best_score = 0
    /\ response = None
    /\ result = None
    /\ raised = "none"
    /\ error = None
    /\ heap = None
    /\ client = None
    /\ history = << >>

\* No create() call is in flight.
NoCallInFlight == pc \in {"idle", "done"}

\* A call on the wrapper other than create(): the frame of a create() that has
\* ended is gone; one in flight (another thread's) is left as it is.
OutsideRun ==
    IF NoCallInFlight
    THEN /\ pc' = "idle"
         /\ kwargs' = None
         /\ config' = None
         /\ attempt' = 0
         /\ attempts' = << >>
         /\ best_response' = None
         /\ best_evaluation' = None
         /\ best_score' = 0
         /\ response' = None
         /\ result' = None
         /\ raised' = "none"
         /\ error' = None
         /\ heap' = None
         /\ client' = None
         /\ history' = << >>
    ELSE UNCHANGED run_vars

\* OpenAI.set_vizeval_config(config) with a dict (VizevalConfig(**config) runs
\* inside) or with a VizevalConfig built by the caller just before.
set_vizeval_config(k, e, t, m) ==
    /\ requested' = Some(<< t, m >>)
    /\ IF VizevalConfig_post_init(t, m) # "ok"
       THEN /\ last_error' = VizevalConfig_post_init(t, m)
            /\ UNCHANGED << vizeval_config, vizeval_client >>
       ELSE /\ vizeval_config' = Some(VizevalConfig(k, e, t, m))
            /\ IF VizevalClient_init(k) # "ok"
               THEN /\ last_error' = VizevalClient_init(k)
                    /\ UNCHANGED vizeval_client
               ELSE /\ last_error' = "none"
                    /\ vizeval_client' = Some(VizevalClient(k))
    /\ OutsideRun

\* OpenAI.set_vizeval_config(config) with a value that is neither.
set_vizeval_config_other ==
    /\ requested' = None
    /\ last_error' = "VizevalConfigError"
    /\ UNCHANGED << vizeval_config, vizeval_client >>
    /\ OutsideRun

\* OpenAI.disable_vizeval()
disable_vizeval ==
    /\ vizeval_config' = None
    /\ vizeval_client' = None
    /\ requested' = None
    /\ last_error' = "none"
    /\ OutsideRun

\* "for attempt in range(config.max_retries + 1)": is a an index of the range.
InRange_OneMore(a, max_retries) == 0 <= a /\ a < max_retries + 2

InRange(a, max_retries) == 0 <= a /\ a < max_retries + 1

\* line 202: evaluation.score is not None and evaluation.score >= config.threshold
ThresholdReached_Strict(score, threshold) ==
    ~IsNone(score) /\ Val(score) > threshold

ThresholdReached(score, threshold) ==
    ~IsNone(score) /\ Val(score) >= threshold

\* line 212: evaluation.score is not None and evaluation.score > best_score
IsNewBest_Latest(score, best) == ~IsNone(score)

IsNewBest(score, best) == ~IsNone(score) /\ Val(score) > best

\* line 254: attempt == config.max_retries
IsLastAttempt(a, max_retries) == a = max_retries

\* The EvaluationResponse built from the remote answer to the evaluation of
\* provider response resp (fields evaluator, score and feedback; of marks which
\* response it judges, so that two evaluations with equal scores stay distinct
\* objects).
EvaluationResponse(evaluator, score, feedback, resp) ==
    [evaluator |-> evaluator, score |-> score, feedback |-> feedback, of |-> resp]

\* RetryAttempt(attempt_number, score, feedback, openai_response,
\* evaluation_response)
RetryAttempt(n, resp, evaluation) ==
    [attempt_number |-> n, score |-> evaluation.score, feedback |-> evaluation.feedback,
     openai_response |-> resp, evaluation_response |-> evaluation]

\* line 199: attempts.append(retry_attempt)
RecordAttempt_Prepend(atts, a) == << a >> \o atts

RecordAttempt(atts, a) == Append(atts, a)

\* VizevalResult(final_response, final_evaluation, attempts, config)
VizevalResult(resp, evaluation, atts, cfg) ==
    [type |-> "VizevalResult", final_response |-> resp,
     final_evaluation |-> Some(evaluation), attempts |-> atts, config |-> Some(cfg)]

\* The raw provider response create() hands back when it does not evaluate.
ChatCompletion(resp) ==
    [type |-> "ChatCompletion", final_response |-> resp,
     final_evaluation |-> None, attempts |-> << >>, config |-> None]

\* create() returns value / raises exc.
Return(value) ==
    /\ pc' = "done"
    /\ result' = Some(value)
    /\ raised' = "none"
    /\ error' = None
    /\ heap' = None
    /\ client' = None

Raise(exc) ==
    /\ pc' = "done"
    /\ result' = None
    /\ raised' = exc
    /\ error' = None
    /\ heap' = None
    /\ client' = None

\* lines 257-268: after the loop, left at index a with the attempts and
\* best-so-far given.
AfterLoop_LastEvaluation(cfg, a, atts, bresp, beval) ==
    /\ IF IsNone(bresp)
       THEN Raise("VizevalOpenAIError")
       ELSE Return(VizevalResult(Val(bresp), atts[Len(atts)].evaluation_response, atts, cfg))
    /\ attempt' = a

AfterLoop_ReturnsLast(cfg, a, atts, bresp, beval) ==
    /\ IF IsNone(bresp) /\ Len(atts) = 0
       THEN Raise("VizevalOpenAIError")
       ELSE IF IsNone(bresp)
       THEN Return(VizevalResult(atts[Len(atts)].openai_response,
                                 atts[Len(atts)].evaluation_response, atts, cfg))
       ELSE Return(VizevalResult(Val(bresp), Val(beval), atts, cfg))
    /\ attempt' = a

AfterLoop(cfg, a, atts, bresp, beval) ==
    /\ IF IsNone(bresp)
       THEN Raise("VizevalOpenAIError")
       ELSE Return(VizevalResult(Val(bresp), Val(beval), atts, cfg))
    /\ attempt' = a

\* The for statement takes index a if the range has it, or the loop ends.
Iterate(cfg, a, atts, bresp, beval) ==
    IF InRange(a, cfg.max_retries)
    THEN /\ attempt' = a
         /\ pc' = "provider"
         /\ result' = None
         /\ raised' = "none"
         /\ error' = None
         /\ heap' = None
         /\ client' = None
    ELSE AfterLoop(cfg, IF a = 0 THEN 0 ELSE a - 1, atts, bresp, beval)

\* lines 248-255: the except clause, "except Exception as e"; nothing was
\* recorded for this iteration.
ExceptHandler_Reraise(e) ==
    /\ Raise(e)
    /\ UNCHANGED << config, attempt, attempts, best_response, best_evaluation,
                    best_score >>

ExceptHandler(e) ==
    /\ IF ~IsNone(best_response)
       THEN AfterLoop(Cfg, attempt, attempts, best_response, best_evaluation)
       ELSE IF IsLastAttempt(attempt, Cfg.max_retries)
            THEN Raise("VizevalOpenAIError") /\ attempt' = attempt
            ELSE Iterate(Cfg, attempt + 1, attempts, best_response, best_evaluation)
    /\ UNCHANGED << config, attempts, best_response, best_evaluation, best_score >>

\* The id of the response the next provider call of this create() returns.
NextResponse == Cardinality(ProviderCalls) + 1

\* _is_evaluable_call(kwargs): lines 145-154
_is_evaluable_call_NoUserCheck(kw) ==
    IF IsNone(kw.messages) THEN FALSE
    ELSE Val(kw.messages) # << >>

_is_evaluable_call(kw) ==
    IF IsNone(kw.messages) THEN FALSE
    ELSE IF Val(kw.messages) = << >> \/ ~IsList(kw.messages) THEN FALSE
    ELSE LET messages == Val(kw.messages)
             user_messages == SelectSeq(messages, LAMBDA m : m.role = "user")
         IN  Len(user_messages) > 0

\* The loop of _extract_prompts over the first n messages: the last system
\* content seen ("" if none) and the user contents seen, in order, each
\* followed by a newline.
RECURSIVE ExtractLoop(_, _)
ExtractLoop(messages, n) ==
    IF n = 0 THEN [system_prompt |-> "", user_prompt |-> << >>]
    ELSE LET acc == ExtractLoop(messages, n - 1)
             message == messages[n]
         IN  IF message.role = "system"
             THEN [acc EXCEPT !.system_prompt = message.content]
             ELSE IF message.role = "user"
             THEN [acc EXCEPT !.user_prompt = acc.user_prompt \o << message.content, "\n" >>]
             ELSE acc

\* str.strip() on a text kept as the sequence of its pieces: the trailing
\* newline goes.
Strip(pieces) ==
    IF Len(pieces) > 0 /\ pieces[Len(pieces)] = "\n"
    THEN SubSeq(pieces, 1, Len(pieces) - 1)
    ELSE pieces

\* _extract_prompts(messages): lines 280-293
_extract_prompts(messages) ==
    LET acc == ExtractLoop(messages, Len(messages))
    IN  [system_prompt |-> acc.system_prompt, user_prompt |-> Strip(acc.user_prompt)]

\* _extract_response_content(response): the text of provider response resp.
_extract_response_content(resp) == << "answer", resp >>

\* line 226: score_str, the score with three decimals or "N/A".
score_str(score) == IF ~IsNone(score) THEN << "%.3f", Val(score) >> ELSE "N/A"

\* lines 228-231: critique_content, a plain string literal (no f prefix): the
\* braces stay as written and score_str is not used.
critique_content(score) ==
    "Sua ultima resposta foi reprovada pela avaliacao de qualidade medica.Considerando o score {score_str}, reescreva a resposta anterior para melhorar a qualidade medica."

\* _adjust_parameters_for_retry(kwargs, attempt): lines 321-336
_adjust_parameters_for_retry_NoGuard(kw) ==
    LET current_temp == IF IsNone(kw.temperature) THEN F(700, 0) ELSE Val(kw.temperature)
        temperature == Some(FloatMin(F(900, 0), FloatAdd(current_temp, F(100, 0))))
        top_p == IF ~IsNone(kw.top_p)
                 THEN Some(FloatMin(F(950, 0), FloatAdd(Val(kw.top_p), F(50, 0))))
                 ELSE kw.top_p
    IN  [kw EXCEPT !.temperature = temperature, !.top_p = top_p]

_adjust_parameters_for_retry_NoCap(kw) ==
    LET current_temp == IF IsNone(kw.temperature) THEN F(700, 0) ELSE Val(kw.temperature)
        temperature == IF FloatLess(current_temp, F(900, 0))
                       THEN Some(FloatAdd(current_temp, F(100, 0)))
                       ELSE kw.temperature
        top_p == IF ~IsNone(kw.top_p) /\ FloatLess(Val(kw.top_p), F(950, 0))
                 THEN Some(FloatAdd(Val(kw.top_p), F(50, 0)))
                 ELSE kw.top_p
    IN  [kw EXCEPT !.temperature = temperature, !.top_p = top_p]

_adjust_parameters_for_retry(kw) ==
    LET current_temp == IF IsNone(kw.temperature) THEN F(700, 0) ELSE Val(kw.temperature)
        temperature == IF FloatLess(current_temp, F(900, 0))
                       THEN Some(FloatMin(F(900, 0), FloatAdd(current_temp, F(100, 0))))
                       ELSE kw.temperature
        top_p == IF ~IsNone(kw.top_p) /\ FloatLess(Val(kw.top_p), F(950, 0))
                 THEN Some(FloatMin(F(950, 0), FloatAdd(Val(kw.top_p), F(50, 0))))
                 ELSE kw.top_p
    IN  [kw EXCEPT !.temperature = temperature, !.top_p = top_p]

\* line 218: attempt < config.max_retries
NotLastAttempt(a, max_retries) == a < max_retries

\* lines 219-243: the request of the next attempt.
RetryKwargs_DropHistory(kw, llm_response, score) ==
    LET assistant_msg == Message("assistant", llm_response)
        critique_msg == Message("system", critique_content(score))
        new_kwargs == [kw EXCEPT !.messages = Some(<< assistant_msg, critique_msg >>)]
    IN  _adjust_parameters_for_retry(new_kwargs)

RetryKwargs_CritiqueFirst(kw, llm_response, score) ==
    LET assistant_msg == Message("assistant", llm_response)
        critique_msg == Message("system", critique_content(score))
        new_kwargs == [kw EXCEPT !.messages =
                          Some(Val(kw.messages) \o << critique_msg, assistant_msg >>)]
    IN  _adjust_parameters_for_retry(new_kwargs)

RetryKwargs_SkipUnscored(kw, llm_response, score) ==
    LET assistant_msg == Message("assistant", llm_response)
        critique_msg == Message("system", critique_content(score))
        new_kwargs == [kw EXCEPT !.messages =
                          Some(Val(kw.messages) \o << assistant_msg, critique_msg >>)]
    IN  IF IsNone(score) THEN kw ELSE _adjust_parameters_for_retry(new_kwargs)

RetryKwargs(kw, llm_response, score) ==
    LET assistant_msg == Message("assistant", llm_response)
        critique_msg == Message("system", critique_content(score))
        new_kwargs == [kw EXCEPT !.messages =
                          Some(Val(kw.messages) \o << assistant_msg, critique_msg >>)]
    IN  _adjust_parameters_for_retry(new_kwargs)

\* The arguments of vizeval_client.evaluate(...) for provider response resp,
\* with the object the method is looked up on (line 182).
EvaluateArgs(kw, resp, receiver) ==
    LET prompts == _extract_prompts(Val(kw.messages))
    IN  [system_prompt |-> prompts.system_prompt, user_prompt |-> prompts.user_prompt,
         response |-> _extract_response_content(resp), evaluator |-> Cfg.evaluator,
         client |-> receiver]

\* CompletionsWrapper.create(**kwargs), up to its first provider call
\* (lines 122-132 and 166-172).
create(kw) ==
    /\ NoCallInFlight
    /\ requested' = None
    /\ last_error' = "none"
    /\ UNCHANGED << vizeval_config, vizeval_client >>
    /\ kwargs' = Some(kw)
    /\ history' = << >>
    /\ attempts' = << >>
    /\ best_response' = None
    /\ best_evaluation' = None
    /\ best_score' = 0
    /\ response' = None
    /\ IF IsNone(vizeval_config) \/ ~_is_evaluable_call(kw)
       THEN /\ config' = None
            /\ attempt' = 0
            /\ pc' = "passthrough"
            /\ result' = None
            /\ raised' = "none"
            /\ error' = None
            /\ heap' = None
            /\ client' = None
       ELSE /\ config' = vizeval_config
            /\ Iterate(Val(vizeval_config), 0, << >>, None, None)

\* The provider call of a create() that does not evaluate returns (lines 124, 129).
passthrough_returns_Retry ==
    /\ pc = "passthrough"
    /\ history' = Append(history, Call("provider", attempt, Val(kwargs), "returned", TRUE))
    /\ UNCHANGED << wrapper_vars, pc, kwargs, config, attempt, attempts, best_response,
                    best_evaluation, best_score, response, result, raised, error, heap, client >>

passthrough_returns ==
    /\ pc = "passthrough"
    /\ history' = Append(history, Call("provider", attempt, Val(kwargs), "returned", TRUE))
    /\ Return(ChatCompletion(NextResponse))
    /\ UNCHANGED << wrapper_vars, kwargs, config, attempt, attempts, best_response,
                    best_evaluation, best_score, response >>

\* ... or raises: the exception leaves create() as it is.
passthrough_raises(exc) ==
    /\ pc = "passthrough"
    /\ history' = Append(history, Call("provider", attempt, Val(kwargs), exc, TRUE))
    /\ Raise(exc)
    /\ UNCHANGED << wrapper_vars, kwargs, config, attempt, attempts, best_response,
                    best_evaluation, best_score, response >>

\* line 175 returns; lines 177-189 run up to the evaluator's network request:
\* the attribute lookup on vizeval_client, then evaluate()'s check of the
\* evaluator kind (client.py lines 64-65).
provider_returns ==
    /\ pc = "provider"
    /\ response' = Some(NextResponse)
    /\ UNCHANGED << wrapper_vars, kwargs >>
    /\ LET h == Append(history, Call("provider", attempt, Val(kwargs), "returned", TRUE))
           args == EvaluateArgs(Val(kwargs), NextResponse, vizeval_client)
       IN  IF IsNone(vizeval_client)
           THEN /\ history' = Append(h, Call("evaluator", attempt, args, "AttributeError", FALSE))
                /\ ExceptHandler("AttributeError")
           ELSE IF ~validate_evaluator(Cfg.evaluator)
           THEN /\ history' = Append(h, Call("evaluator", attempt, args, "VizevalConfigError", FALSE))
                /\ ExceptHandler("VizevalConfigError")
           ELSE /\ history' = h
                /\ pc' = "evaluator"
                /\ client' = vizeval_client
                /\ UNCHANGED << config, attempt, attempts, best_response,
                                best_evaluation, best_score, result, raised, error, heap >>

\* line 175 raises.
provider_raises_ThenEvaluates(exc) ==
    /\ pc = "provider"
    /\ history' = Append(history, Call("provider", attempt, Val(kwargs), exc, TRUE))
    /\ pc' = "evaluator"
    /\ UNCHANGED << wrapper_vars, kwargs, response, config, attempt, attempts,
                    best_response, best_evaluation, best_score, result, raised, error, heap, client >>

provider_raises(exc) ==
    /\ pc = "provider"
    /\ history' = Append(history, Call("provider", attempt, Val(kwargs), exc, TRUE))
    /\ ExceptHandler(exc)
    /\ UNCHANGED << wrapper_vars, kwargs, response >>

\* The evaluator answers 201 with the given score (and its feedback text):
\* lines 191-246.
evaluator_returns(score) ==
    /\ pc = "evaluator"
    /\ history' = Append(history, Call("evaluator", attempt,
                                       EvaluateArgs(Val(kwargs), Val(response), client),
                                       "returned", TRUE))
    /\ UNCHANGED << wrapper_vars, config, response >>
    /\ LET evaluation == EvaluationResponse(Cfg.evaluator, score, FeedbackInputs(score),
                                             Val(response))
           atts == RecordAttempt(attempts, RetryAttempt(attempt + 1, Val(response), evaluation))
           better == IsNewBest(score, best_score)
           bresp == IF better THEN response ELSE best_response
           beval == IF better THEN Some(evaluation) ELSE best_evaluation
       IN  /\ attempts' = atts
           /\ IF ThresholdReached(score, Cfg.threshold)
              THEN /\ Return(VizevalResult(Val(response), evaluation, atts, Cfg))
                   /\ UNCHANGED << kwargs, attempt, best_response, best_evaluation,
                                   best_score >>
              ELSE /\ best_score' = IF better THEN Val(score) ELSE best_score
                   /\ best_response' = bresp
                   /\ best_evaluation' = beval
                   /\ kwargs' = IF NotLastAttempt(attempt, Cfg.max_retries)
                                THEN Some(RetryKwargs(Val(kwargs),
                                          _extract_response_content(Val(response)), score))
                                ELSE kwargs
                   /\ Iterate(Cfg, attempt + 1, atts, bresp, beval)

\* The evaluator round trip raises (transport failure, a status other than
\* 201, a body EvaluationResponse rejects).
evaluator_raises(exc) ==
    /\ pc = "evaluator"
    /\ history' = Append(history, Call("evaluator", attempt,
                                       EvaluateArgs(Val(kwargs), Val(response), client), exc, TRUE))
    /\ ExceptHandler(exc)
    /\ UNCHANGED << wrapper_vars, kwargs, response >>

\* One caller thread: the wrapper is reconfigured only between create() calls.
Next ==
    \/ /\ NoCallInFlight
       /\ \E k \in ApiKeyInputs, e \in EvaluatorInputs,
             t \in ThresholdInputs, m \in MaxRetriesInputs :
            set_vizeval_config(k, e, t, m)
    \/ NoCallInFlight /\ set_vizeval_config_other
    \/ NoCallInFlight /\ disable_vizeval
    \/ \E kw \in KwargsInputs : create(kw)
    \/ passthrough_returns
    \/ \E exc \in ProviderErrors : passthrough_raises(exc)
    \/ provider_returns
    \/ \E exc \in ProviderErrors : provider_raises(exc)
    \/ \E score \in ScoreInputs : evaluator_returns(score)
    \/ \E exc \in EvaluatorErrors : evaluator_raises(exc)

Spec == Init /\ [][Next]_vars

\* A call in flight comes to an end: the provider client and the evaluator's
\* session.post (timeout=30) return or raise.
CallEnds ==
    \/ provider_returns
    \/ \E exc \in ProviderErrors : provider_raises(exc)
    \/ \E score \in ScoreInputs : evaluator_returns(score)
    \/ \E exc \in EvaluatorErrors : evaluator_raises(exc)

\* A caller that configures the wrapper and then makes one call after another
\* with it.
LiveNext ==
    \/ /\ pc = "idle"
       /\ \E k \in ApiKeyInputs, e \in EvaluatorInputs,
             t \in ThresholdInputs, m \in MaxRetriesInputs :
            set_vizeval_config(k, e, t, m)
    \/ pc = "idle" /\ disable_vizeval
    \/ \E kw \in KwargsInputs : create(kw)
    \/ passthrough_returns
    \/ \E exc \in ProviderErrors : passthrough_raises(exc)
    \/ CallEnds

LiveSpec == Init /\ [][LiveNext]_vars /\ WF_vars(CallEnds)

\* ------------------------------------------------- a second thread reconfigures
\* What another thread passes to set_vizeval_config while a create() call of
\* the first is in flight, and the requests of the first.
OtherThreadKeys == {"vz_key", "vz_other"}
OtherThreadThresholds == {60}
OtherThreadMaxRetries == {0}
ConcurrentKwargs ==
    { kw \in KwargsInputs :
        /\ kw.messages = Some(<< Message("system", "sys"), Message("user", "q1") >>)
        /\ kw.temperature = Some(F(850, 0))
        /\ kw.top_p = None }

\* Two threads share one wrapper: one calls create(), the other calls
\* set_vizeval_config() and disable_vizeval() at any moment, also between two
\* steps of a create() in flight (no lock guards the wrapper's attributes).
ConcurrentNext ==
    \/ \E k \in OtherThreadKeys, e \in EvaluatorInputs,
          t \in OtherThreadThresholds, m \in OtherThreadMaxRetries :
         set_vizeval_config(k, e, t, m)
    \/ disable_vizeval
    \/ \E kw \in ConcurrentKwargs : create(kw)
    \/ passthrough_returns
    \/ \E exc \in ProviderErrors : passthrough_raises(exc)
    \/ CallEnds

ConcurrentSpec == Init /\ [][ConcurrentNext]_vars

\* ------------------------------------------------------------- client.py
\* The members of a JSON object the evaluator service may send: each is None
\* when absent, Some(value) when present (score may be present and null).
\* mistyped names the members whose JSON value is not of the type
\* EvaluationResponse declares and cannot be converted to it (a number for
\* evaluator, a text that is no number for score).
JsonObject(detail, evaluator, score, feedback) ==
    [detail |-> detail, evaluator |-> evaluator, score |-> score, feedback |-> feedback,
     mistyped |-> {}]

Mistyped(object, members) == [object EXCEPT !.mistyped = members]

\* What session.post returns: a status code and a body.  content tells what
\* the body holds ("empty": no bytes, "text": bytes that are not JSON,
\* "object" and "array": JSON), json the members of a JSON object.
HttpResponse(status_code, content, json) ==
    [status_code |-> status_code, content |-> content, json |-> json]

\* VizevalAPIError(message, status_code, response_data): detail is the remote
\* detail the message carries.
VizevalAPIError(status_code, detail, response_data) ==
    [status_code |-> status_code, detail |-> detail, response_data |-> response_data]

\* How a call ends: with an exception (and, for a VizevalAPIError, its
\* attributes) or with a value.
Raises(exc, attributes) == [raised |-> exc, error |-> attributes, value |-> None]
Returns(value) == [raised |-> "none", error |-> None, value |-> Some(value)]

\* response.json() returns (the body is JSON) rather than raising.
response_json_returns(resp) == resp.content \in {"object", "array"}

\* lines 104-109: the detail added to error_message; the bare except swallows
\* what a body without a usable 'detail' member raises.
error_detail(resp) ==
    IF response_json_returns(resp) /\ resp.content = "object"
    THEN resp.json.detail
    ELSE None

\* EvaluationResponse(**response_data): lines 117-119 and models.py lines 41-47.
EvaluationResponse_from(response_data) ==
    IF response_data.content = "array" THEN Raises("TypeError", None)
    ELSE IF IsNone(response_data.json.evaluator) THEN Raises("ValidationError", None)
    ELSE IF response_data.json.mistyped \cap {"evaluator", "score", "feedback"} # {}
    THEN Raises("ValidationError", None)
    ELSE LET score == IF IsNone(response_data.json.score) THEN None
                      ELSE Val(response_data.json.score)
         IN  Returns(EvaluationResponse(Val(response_data.json.evaluator), score,
                                        response_data.json.feedback, 1))

\* _make_evaluation_request once session.post has returned resp: lines 101-124.
\* A response.json() that raises inside the try block (lines 114 and 118) is
\* caught by the except clauses of lines 121-124, which raise a VizevalAPIError
\* built from a message alone.
_make_evaluation_request(resp) ==
    IF resp.status_code # 201
    THEN IF resp.content # "empty" /\ ~response_json_returns(resp)
         THEN Raises("VizevalAPIError", Some(VizevalAPIError(None, None, None)))
         ELSE Raises("VizevalAPIError",
                     Some(VizevalAPIError(Some(resp.status_code), error_detail(resp),
                                          IF resp.content # "empty" THEN Some(resp.json)
                                          ELSE None)))
    ELSE IF ~response_json_returns(resp)
         THEN Raises("VizevalAPIError", Some(VizevalAPIError(None, None, None)))
         ELSE EvaluationResponse_from(resp)

\* The answers of the evaluator service.
NoMembers == JsonObject(None, None, None, None)
HttpInputs ==
    { HttpResponse(201, "object", JsonObject(None, Some("medical"), Some(Some(85)),
                                             Some("Resposta adequada"))),
      HttpResponse(201, "object", JsonObject(None, Some("medical"), Some(None), None)),
      HttpResponse(201, "object", JsonObject(None, None, Some(Some(85)), None)),
      HttpResponse(201, "object",
                   Mistyped(JsonObject(None, Some("medical"), Some(Some(0)), None), {"score"})),
      HttpResponse(201, "object", JsonObject(None, Some("medical"), Some(Some(170)), None)),
      HttpResponse(201, "object", JsonObject(None, Some("medical"), Some(Some(-20)), None)),
      HttpResponse(201, "array", NoMembers),
      HttpResponse(201, "text", NoMembers),
      HttpResponse(201, "empty", NoMembers),
      HttpResponse(200, "object", JsonObject(None, Some("medical"), Some(Some(85)), None)),
      HttpResponse(400, "object", JsonObject(Some("Erro de validacao"), None, None, None)),
      HttpResponse(400, "object", NoMembers),
      HttpResponse(422, "array", NoMembers),
      HttpResponse(500, "empty", NoMembers),
      HttpResponse(502, "text", NoMembers) }

\* Transport failures of session.post, all of them RequestException.
TransportErrors == {"ConnectionError", "Timeout"}

\* The arguments a caller passes to evaluate().
EvaluateInputs ==
    [system_prompt : {"", "sys"}, user_prompt : {"q1"}, response : {"", "answer"},
     evaluator : {"medical", "juridical", "dummy", "unknown_kind", ""}]

\* A VizevalClient built with an API key, nothing called on it yet.
ClientInit ==
    /\ vizeval_config = None
    /\ vizeval_client = Some(VizevalClient("vz_key"))
    /\ requested = None
    /\ last_error = "none"
    /\ pc = "idle"
    /\ kwargs = None
    /\ config = None
    /\ attempt = 0
    /\ attempts = << >>
    /\ best_response = None
    /\ best_evaluation = None
    /\ best_score = 0
    /\ response = None
    /\ result = None
    /\ raised = "none"
    /\ error = None
    /\ heap = None
    /\ client = None
    /\ history = << >>

\* The call ends as outcome says.
Ends(outcome) ==
    /\ pc' = "done"
    /\ result' = outcome.value
    /\ raised' = outcome.raised
    /\ error' = outcome.error
    /\ heap' = None
    /\ client' = None

\* VizevalClient.evaluate(...), up to the POST of _make_evaluation_request
\* (lines 64-101).
evaluate(args) ==
    /\ pc \in {"idle", "done"}
    /\ kwargs' = Some(args)
    /\ history' = << >>
    /\ response' = None
    /\ IF ~validate_evaluator(args.evaluator)
       THEN Ends(Raises("VizevalConfigError", None))
       ELSE /\ pc' = "post"
            /\ result' = None
            /\ raised' = "none"
            /\ error' = None
            /\ heap' = None
            /\ client' = None
    /\ UNCHANGED << wrapper_vars, config, attempt, attempts, best_response,
                    best_evaluation, best_score >>

\* session.post returns resp: lines 101-119.
post_returns(resp) ==
    /\ pc = "post"
    /\ history' = Append(history, Call("post", 0, Val(kwargs), "returned", TRUE))
    /\ response' = Some(resp)
    /\ Ends(_make_evaluation_request(resp))
    /\ UNCHANGED << wrapper_vars, kwargs, config, attempt, attempts, best_response,
                    best_evaluation, best_score >>

\* session.post raises a RequestException: lines 121-122.
post_raises(exc) ==
    /\ pc = "post"
    /\ history' = Append(history, Call("post", 0, Val(kwargs), exc, TRUE))
    /\ Ends(Raises("VizevalAPIError", Some(VizevalAPIError(None, None, None))))
    /\ UNCHANGED << wrapper_vars, kwargs, config, attempt, attempts, best_response,
                    best_evaluation, best_score, response >>

ClientNext ==
    \/ \E args \in EvaluateInputs : evaluate(args)
    \/ \E resp \in HttpInputs : post_returns(resp)
    \/ \E exc \in TransportErrors : post_raises(exc)

ClientSpec == ClientInit /\ [][ClientNext]_vars

\* ------------------------------------------------- EvaluationResponse alone
\* The scores of the evaluations whose properties are read.
ModelScoreInputs == ScoreInputs \cup {Some(-20), Some(80), Some(100), Some(170)}

\* An EvaluationResponse built by the caller; nothing read from it yet.
ModelsInit ==
    /\ vizeval_config = None
    /\ vizeval_client = None
    /\ requested = None
    /\ last_error = "none"
    /\ pc = "idle"
    /\ kwargs = None
    /\ config = None
    /\ attempt = 0
    /\ attempts = << >>
    /\ best_response = None
    /\ \E e \in EvaluatorInputs, score \in ModelScoreInputs :
           best_evaluation = Some(EvaluationResponse(e, score, FeedbackInputs(score), 1))
    /\ best_score = 0
    /\ response = None
    /\ result = None
    /\ raised = "none"
    /\ error = None
    /\ heap = None
    /\ client = None
    /\ history = << >>

\* evaluation.passed_threshold(threshold)
passed_threshold(threshold) ==
    /\ kwargs' = Some([method |-> "passed_threshold", threshold |-> threshold])
    /\ pc' = "done"
    /\ result' = Some(PyBool(EvaluationResponse_passed_threshold(Val(best_evaluation),
                                                                threshold)))
    /\ UNCHANGED << wrapper_vars, config, attempt, attempts, best_response,
                    best_evaluation, best_score, response, raised, error, heap, client, history >>

\* evaluation.is_success
is_success ==
    /\ kwargs' = Some([method |-> "is_success", threshold |-> 0])
    /\ pc' = "done"
    /\ result' = Some(PyBool(EvaluationResponse_is_success(Val(best_evaluation))))
    /\ UNCHANGED << wrapper_vars, config, attempt, attempts, best_response,
                    best_evaluation, best_score, response, raised, error, heap, client, history >>

ModelsNext ==
    \/ \E threshold \in ThresholdInputs : passed_threshold(threshold)
    \/ is_success

ModelsSpec == ModelsInit /\ [][ModelsNext]_vars

\* ------------------------------------------- _adjust_parameters_for_retry alone
\* A request with both sampling parameters the caller may give, before the
\* first application.
NudgeInit ==
    /\ vizeval_config = None
    /\ vizeval_client = None
    /\ requested = None
    /\ last_error = "none"
    /\ pc = "nudge"
    /\ \E t \in NudgeTemperatureInputs, p \in NudgeTopPInputs :
           kwargs = Some([messages |-> Some(<< Message("user", "q1") >>),
                          temperature |-> t, top_p |-> p])
    /\ config = None
    /\ attempt = 0
    /\ attempts = << >>
    /\ best_response = None
    /\ best_evaluation = None
    /\ best_score = 0
    /\ response = None
    /\ result = None
    /\ raised = "none"
    /\ error = None
    /\ heap = None
    /\ client = None
    /\ history = << >>

\* kwargs = self._adjust_parameters_for_retry(kwargs, attempt + 1), once more.
adjust_parameters ==
    /\ pc = "nudge"
    /\ attempt < MaxNudges
    /\ kwargs' = Some(_adjust_parameters_for_retry(Val(kwargs)))
    /\ attempt' = attempt + 1
    /\ UNCHANGED << wrapper_vars, pc, config, attempts, best_response, best_evaluation,
                    best_score, response, result, raised, error, heap, client, history >>

NudgeNext == adjust_parameters

\* The function is applied again and again, as long as the count allows.
NudgeSpec == NudgeInit /\ [][NudgeNext]_vars /\ WF_vars(NudgeNext)

\* ------------------------------------------ the retry request, object by object
\* The mutable objects a run can reach, each known by its position in its
\* sequence: the request dicts (messages names a list), the lists (their
\* items name message dicts) and the message dicts.
Heap(dicts, lists, messages) == [dicts |-> dicts, lists |-> lists, messages |-> messages]

\* copy.deepcopy(kwargs) for the request dict ref: a new dict, a new list and
\* a new message dict per item, with the same contents; the objects copied are
\* left as they are.
deepcopy(h, ref) ==
    LET items == h.lists[h.dicts[ref].messages]
        copies == [i \in 1 .. Len(items) |-> h.messages[items[i]]]
        new_list == [i \in 1 .. Len(items) |-> Len(h.messages) + i]
    IN  [heap |-> Heap(Append(h.dicts, [h.dicts[ref] EXCEPT !.messages = Len(h.lists) + 1]),
                       Append(h.lists, new_list),
                       h.messages \o copies),
         ref |-> Len(h.dicts) + 1]

\* _adjust_parameters_for_retry(kwargs, attempt) on objects: line 321 copies,
\* lines 328 and 334 assign to the copy, line 336 returns it.
adjust_parameters_for_retry_objects(h, ref) ==
    LET copied == deepcopy(h, ref)
        new_kwargs == copied.ref
    IN  [heap |-> [copied.heap EXCEPT !.dicts[new_kwargs] = _adjust_parameters_for_retry(@)],
         ref |-> new_kwargs]

\* lines 219-243 on objects.  RetryObjects_InPlace extends kwargs["messages"]
\* itself instead of building kwargs["messages"] + [...].
RetryObjects_InPlace(h, ref, llm_response, score) ==
    LET assistant_msg == Len(h.messages) + 1
        critique_msg == Len(h.messages) + 2
        extended == Heap(h.dicts,
                         [h.lists EXCEPT ![h.dicts[ref].messages] =
                              @ \o << assistant_msg, critique_msg >>],
                         h.messages \o << Message("assistant", llm_response),
                                          Message("system", critique_content(score)) >>)
    IN  adjust_parameters_for_retry_objects(extended, ref)

RetryObjects(h, ref, llm_response, score) ==
    LET assistant_msg == Len(h.messages) + 1
        critique_msg == Len(h.messages) + 2
        made == Heap(h.dicts, h.lists,
                     h.messages \o << Message("assistant", llm_response),
                                      Message("system", critique_content(score)) >>)
        copied == deepcopy(made, ref)
        new_kwargs == copied.ref
        concatenation == made.lists[made.dicts[ref].messages] \o << assistant_msg, critique_msg >>
        assigned == Heap([copied.heap.dicts EXCEPT ![new_kwargs].messages =
                              Len(copied.heap.lists) + 1],
                         Append(copied.heap.lists, concatenation),
                         copied.heap.messages)
    IN  adjust_parameters_for_retry_objects(assigned, new_kwargs)

\* The state on entry to the loop of _create_with_vizeval_retry: the caller's
\* conversation is list 1 and its messages are message dicts 1 .. Len, and
\* kwargs, the dict "**kwargs" made for the call, is dict 1.
ObjectsInit ==
    /\ vizeval_config = None
    /\ vizeval_client = None
    /\ requested = None
    /\ last_error = "none"
    /\ pc = "provider"
    /\ \E kw \in { k \in KwargsInputs : _is_evaluable_call(k) } :
           /\ heap = Some(Heap(<< [kw EXCEPT !.messages = 1] >>,
                               << [i \in 1 .. Len(Val(kw.messages)) |-> i] >>,
                               Val(kw.messages)))
           /\ kwargs = Some(1)
    /\ \E m \in 0 .. MaxRetries : config = Some(VizevalConfig("vz_key", "medical", 80, m))
    /\ attempt = 0
    /\ attempts = << >>
    /\ best_response = None
    /\ best_evaluation = None
    /\ best_score = 0
    /\ response = None
    /\ result = None
    /\ raised = "none"
    /\ error = None
    /\ client = None
    /\ history = << >>

\* An attempt that was evaluated, was below the threshold and was not the last:
\* lines 218-243 rebind kwargs to the request of the next attempt.
retry(score) ==
    /\ pc = "provider"
    /\ NotLastAttempt(attempt, Cfg.max_retries)
    /\ LET built == RetryObjects(Val(heap), Val(kwargs),
                                 _extract_response_content(attempt + 1), score)
       IN  /\ heap' = Some(built.heap)
           /\ client' = None
           /\ kwargs' = Some(built.ref)
    /\ attempt' = attempt + 1
    /\ UNCHANGED << wrapper_vars, pc, config, attempts, best_response, best_evaluation,
                    best_score, response, result, raised, error, history >>

\* The call ends (return or raise): no request is built any more.
call_ends ==
    /\ pc = "provider"
    /\ pc' = "done"
    /\ UNCHANGED << wrapper_vars, kwargs, config, attempt, attempts, best_response,
                    best_evaluation, best_score, response, result, raised, error, heap, client,
                    history >>

ObjectsNext ==
    \/ \E score \in ScoreInputs : retry(score)
    \/ call_ends

ObjectsSpec == ObjectsInit /\ [][ObjectsNext]_vars

\* ------------------------------------------------------------- properties
\* A create() call with a configured evaluator is running or has ended.
InRun == ~IsNone(config)

\* create() has returned a VizevalResult.
ReturnedResult ==
    pc = "done" /\ ~IsNone(result) /\ Val(result).type = "VizevalResult"

Res == Val(result)

\* The last call of the run raised.
LastCallRaised ==
    Len(history) > 0 /\ history[Len(history)].outcome # "returned"

\* A score that is a number and at least t.
Meets(score, t) == score # None /\ score[1] >= t

\* The recorded attempts (indices into atts) that carry a number as score.
Scored(atts) == { i \in 1 .. Len(atts) : atts[i].score # None }

\* The earliest attempt with the maximum score among the scored attempts.
EarliestBest(atts) ==
    CHOOSE i \in Scored(atts) :
        /\ \A j \in Scored(atts) : atts[j].score[1] <= atts[i].score[1]
        /\ \A j \in Scored(atts) : atts[j].score[1] = atts[i].score[1] => i <= j

\* C1: in a run with a configured evaluator the provider is called at most
\* max_retries + 1 times, and a returned result has
\* total_attempts <= max_retries + 1.
C1_AttemptsBounded ==
    InRun =>
        /\ Cardinality(ProviderCalls) <= Cfg.max_retries + 1
        /\ ReturnedResult =>
               VizevalResult_total_attempts(Res) <= Val(Res.config).max_retries + 1

\* A run that used all of its three permitted attempts and returned a result.
C1_Witness ==
    /\ ReturnedResult
    /\ Cfg.max_retries = 2
    /\ Cardinality(ProviderCalls) = 3
    /\ VizevalResult_total_attempts(Res) = 3

\* C2: an attempt whose score is a number >= threshold ends the run at once:
\* it is the last recorded attempt, its evaluation is the last call of the
\* run, and the result returned is that attempt's response and evaluation.
C2_StopsAtFirstPass ==
    InRun =>
        \A i \in 1 .. Len(attempts) :
            Meets(attempts[i].score, Cfg.threshold) =>
                /\ i = Len(attempts)
                /\ ReturnedResult
                /\ Res.attempts = attempts
                /\ Res.final_response = attempts[i].openai_response
                /\ Res.final_evaluation = Some(attempts[i].evaluation_response)
                /\ Meets(Val(Res.final_evaluation).score, Cfg.threshold)
                /\ history[Len(history)].target = "evaluator"
                /\ history[Len(history)].outcome = "returned"
                /\ history[Len(history)].idx = attempts[i].attempt_number - 1

\* A run that passed on its third attempt after two scored failures.
C2_Witness ==
    /\ ReturnedResult
    /\ Len(attempts) = 3
    /\ ~Meets(attempts[1].score, Cfg.threshold)
    /\ ~Meets(attempts[2].score, Cfg.threshold)
    /\ Meets(attempts[3].score, Cfg.threshold)
    /\ Cfg.threshold = 80

\* C3 (as claimed): when all max_retries + 1 attempts were recorded, none met
\* the threshold and at least one has a number as score, the run returns the
\* earliest attempt with the maximum score, a maximum of 0.0 included.
C3_ExhaustedReturnsMax ==
    /\ InRun
    /\ pc = "done"
    /\ Len(attempts) = Cfg.max_retries + 1
    /\ \A i \in 1 .. Len(attempts) : ~Meets(attempts[i].score, Cfg.threshold)
    /\ Scored(attempts) # {}
    => /\ ReturnedResult
       /\ Res.final_evaluation =
              Some(attempts[EarliestBest(attempts)].evaluation_response)

\* C4 (as claimed): the threshold-pass flag of a returned result is true
\* exactly when the final evaluation's score is a number >= the threshold.
C4_PassedFlagMatchesScore ==
    ReturnedResult =>
        (Truthy(VizevalResult_passed_threshold(Res))
            <=> Meets(Val(Res.final_evaluation).score, Val(Res.config).threshold))

\* C5 (as claimed): when a call raises and an earlier attempt of the run was
\* recorded with a number as score (0.0 included), the run ends there and
\* returns the best earlier attempt, with the attempts recorded so far.
C5_RaiseReturnsBestEarlier ==
    /\ InRun
    /\ LastCallRaised
    /\ Scored(attempts) # {}
    => /\ ReturnedResult
       /\ Res.attempts = attempts
       /\ Res.final_evaluation =
              Some(attempts[EarliestBest(attempts)].evaluation_response)

\* C6: a call that raises on the last permitted attempt while no best-so-far
\* response is held ends the run with VizevalOpenAIError and no result.
C6_LastAttemptRaiseFails ==
    /\ InRun
    /\ LastCallRaised
    /\ history[Len(history)].idx = Cfg.max_retries
    /\ IsNone(best_response)
    => /\ pc = "done"
       /\ raised = "VizevalOpenAIError"
       /\ IsNone(result)

\* The provider raised on the only attempt of a run with max_retries = 0.
C6_Witness ==
    /\ InRun
    /\ Cfg.max_retries = 0
    /\ Len(history) = 1
    /\ history[1].target = "provider"
    /\ history[1].outcome = "OpenAIError"
    /\ raised = "VizevalOpenAIError"

\* C7 (as claimed): a configuration error raised by evaluate() leaves the
\* loop uncaught: the run ends with it on the first attempt, after one
\* provider call.
C7_ConfigErrorPropagates ==
    /\ InRun
    /\ \E i \in 1 .. Len(history) : history[i].outcome = "VizevalConfigError"
    => /\ pc = "done"
       /\ raised = "VizevalConfigError"
       /\ Cardinality(ProviderCalls) = 1

\* C8 (as claimed): in a returned result attempts[i].attempt_number is i
\* (1-based), with no gaps.
C8_AttemptNumbersSequential ==
    ReturnedResult =>
        \A i \in 1 .. Len(Res.attempts) : Res.attempts[i].attempt_number = i

\* C9 (as claimed): a returned result holds one record per loop iteration
\* (provider call) of the run, in chronological order.
C9_OneRecordPerIteration ==
    ReturnedResult =>
        /\ Len(Res.attempts) = Cardinality(ProviderCalls)
        /\ \A i, j \in 1 .. Len(Res.attempts) :
               i < j => Res.attempts[i].attempt_number < Res.attempts[j].attempt_number

\* The iterations of the run whose provider call and evaluation both returned.
CompletedIterations ==
    { history[i].idx : i \in { j \in EvaluatorCalls : history[j].outcome = "returned" } }

\* C9 (amended): a returned result holds one record per loop iteration whose
\* provider call and evaluation both returned (an iteration that raised
\* leaves none), in chronological order: the k-th record is that of the k-th
\* such iteration.
C9_OneRecordPerCompletedIteration ==
    ReturnedResult =>
        /\ Len(Res.attempts) = Cardinality(CompletedIterations)
        /\ \A i \in 1 .. Len(Res.attempts) :
               Res.attempts[i].attempt_number - 1 \in CompletedIterations
        /\ \A i, j \in 1 .. Len(Res.attempts) :
               i < j => Res.attempts[i].attempt_number < Res.attempts[j].attempt_number

\* A result returned after an iteration that raised: two records, three
\* provider calls.
C9_Witness ==
    /\ ReturnedResult
    /\ Len(Res.attempts) = 2
    /\ Cardinality(ProviderCalls) = 3

\* C10: a VizevalConfig with threshold outside [0, 1] or max_retries < 0 is
\* refused with ValueError, so the configuration the wrapper holds and the
\* one a run works with always have 0 <= threshold <= 1 and max_retries >= 0.
C10_ConfigValidated ==
    /\ ~IsNone(requested) =>
           (~(0 <= Val(requested)[1] /\ Val(requested)[1] <= 100 /\ Val(requested)[2] >= 0)
                => last_error = "ValueError")
    /\ ~IsNone(vizeval_config) =>
           /\ 0 <= Val(vizeval_config).threshold
           /\ Val(vizeval_config).threshold <= 100
           /\ Val(vizeval_config).max_retries >= 0
    /\ InRun =>
           /\ 0 <= Cfg.threshold
           /\ Cfg.threshold <= 100
           /\ Cfg.max_retries >= 0

\* set_vizeval_config was refused for max_retries = -1 on a wrapper that keeps
\* its earlier configuration.
C10_Witness ==
    /\ ~IsNone(requested)
    /\ Val(requested)[2] = -1
    /\ last_error = "ValueError"
    /\ ~IsNone(vizeval_config)

\* The provider calls of the run (indices into history), in the order made.
ProviderCallSeq ==
    LET idxs == [i \in 1 .. Len(history) |-> i]
    IN  SelectSeq(idxs, LAMBDA i : history[i].target = "provider")

\* The conversation sent with the provider call at history[i].
Conversation(i) == Val(history[i].args.messages)

\* s is a prefix of t: t starts with the elements of s, in the same order.
IsPrefix(s, t) ==
    /\ Len(s) <= Len(t)
    /\ \A k \in 1 .. Len(s) : t[k] = s[k]

\* The iteration of the provider call at history[i] raised: the call itself, or
\* the evaluation that followed it.
IterationRaised(i) ==
    \/ history[i].outcome # "returned"
    \/ /\ i < Len(history)
       /\ history[i + 1].target = "evaluator"
       /\ history[i + 1].outcome # "returned"

\* C11 (as claimed): for every two consecutive provider calls of a run, the
\* conversation of the earlier call is a proper prefix of the conversation of
\* the later call.
C11_ConversationStrictlyExtends ==
    InRun =>
        \A n \in 1 .. Len(ProviderCallSeq) - 1 :
            LET earlier == Conversation(ProviderCallSeq[n])
                later == Conversation(ProviderCallSeq[n + 1])
            IN  IsPrefix(earlier, later) /\ Len(earlier) < Len(later)

\* C11 (amended): for every two consecutive provider calls of a run, the
\* conversation of the earlier call is a prefix of the conversation of the
\* later call, with no message removed, altered or reordered: a proper prefix
\* when the earlier attempt was evaluated, the same conversation when the
\* earlier attempt raised.
C11_ConversationExtends ==
    InRun =>
        \A n \in 1 .. Len(ProviderCallSeq) - 1 :
            LET earlier == Conversation(ProviderCallSeq[n])
                later == Conversation(ProviderCallSeq[n + 1])
            IN  /\ IsPrefix(earlier, later)
                /\ IterationRaised(ProviderCallSeq[n]) <=> Len(later) = Len(earlier)

\* A run of three provider calls: the first attempt raised, the second was
\* evaluated below the threshold.
C11_Witness ==
    /\ InRun
    /\ Len(ProviderCallSeq) = 3
    /\ IterationRaised(ProviderCallSeq[1])
    /\ ~IterationRaised(ProviderCallSeq[2])
    /\ Len(Conversation(ProviderCallSeq[3])) = Len(Conversation(ProviderCallSeq[1])) + 2

\* The record of the attempt made in loop iteration idx (one exists when the
\* evaluation of that iteration returned).
AttemptOf(idx) ==
    CHOOSE a \in { attempts[k] : k \in 1 .. Len(attempts) } : a.attempt_number = idx + 1

\* C12: after an attempt that was evaluated, did not meet the threshold and was
\* not the last permitted one, the conversation of the next provider call is
\* the previous conversation followed by exactly two messages: an assistant
\* message holding the text of the response just generated (the text that was
\* sent to the evaluator), then a system message whose content is not the
\* feedback text of the evaluation.
C12_RetryAppendsAnswerAndCritique ==
    InRun =>
        \A n \in 1 .. Len(ProviderCallSeq) - 1 :
            LET i == ProviderCallSeq[n]
                earlier == Conversation(i)
                later == Conversation(ProviderCallSeq[n + 1])
                feedback == AttemptOf(history[i].idx).feedback
            IN  ~IterationRaised(i) =>
                    /\ Len(later) = Len(earlier) + 2
                    /\ SubSeq(later, 1, Len(earlier)) = earlier
                    /\ later[Len(earlier) + 1].role = "assistant"
                    /\ later[Len(earlier) + 1].content = history[i + 1].args.response
                    /\ later[Len(earlier) + 2].role = "system"
                    /\ feedback # None => later[Len(earlier) + 2].content # feedback[1]

\* A second provider call made after a first attempt scored 0.5 under a
\* threshold of 0.6 and came back with a feedback text.
C12_Witness ==
    /\ InRun
    /\ Len(ProviderCallSeq) = 2
    /\ Len(attempts) = 1
    /\ attempts[1].score = Some(50)
    /\ attempts[1].feedback # None
    /\ Cfg.threshold = 60
    /\ Len(Conversation(ProviderCallSeq[2])) = Len(Conversation(ProviderCallSeq[1])) + 2

\* The provider calls of the run (positions in ProviderCallSeq) that were
\* followed by a retry built from their evaluation.
RetriedCalls ==
    { n \in 1 .. Len(ProviderCallSeq) - 1 : ~IterationRaised(ProviderCallSeq[n]) }

\* The content of the system message appended after the attempt of the n-th
\* provider call: the last message of the next call's conversation.
CritiqueAfter(n) ==
    LET later == Conversation(ProviderCallSeq[n + 1])
    IN  later[Len(later)].content

\* C13: the critique appended before a retry depends on the score of the
\* attempt that failed: two failed attempts of a run with different scores
\* (a number or none) are followed by different critique contents.
C13_CritiqueDependsOnScore ==
    InRun =>
        \A n, m \in RetriedCalls :
            AttemptOf(history[ProviderCallSeq[n]].idx).score
                    # AttemptOf(history[ProviderCallSeq[m]].idx).score
                => CritiqueAfter(n) # CritiqueAfter(m)

\* x <= y on doubles.
FloatLeq(x, y) == ~FloatLess(y, x)

\* One sampling parameter on two consecutive provider calls, earlier given: it
\* is still given, has not decreased and has not crossed the bound from below;
\* if the attempt between the calls was evaluated (a nudge took place) and the
\* value was below the bound, the value is now the sum with step, or the
\* bound if the sum lies above it.
NudgedWithinBound(earlier, later, nudged, bound, step) ==
    earlier # None =>
        /\ later # None
        /\ FloatLeq(earlier[1], later[1])
        /\ FloatLeq(earlier[1], bound) => FloatLeq(later[1], bound)
        /\ (nudged /\ FloatLess(earlier[1], bound)) =>
               LET sum == FloatAdd(earlier[1], step)
               IN  later[1] = IF FloatLess(bound, sum) THEN bound ELSE sum

\* C14: across the provider calls of a run temperature and top_p never
\* decrease, a retry never moves temperature from a value <= 0.9 to one > 0.9
\* nor top_p from a value <= 0.95 to one > 0.95, and below the bound each
\* nudge adds 0.1 to temperature and 0.05 to top_p, capped at the bound.
C14_NudgeMonotonicBounded ==
    InRun =>
        \A n \in 1 .. Len(ProviderCallSeq) - 1 :
            LET earlier == history[ProviderCallSeq[n]].args
                later == history[ProviderCallSeq[n + 1]].args
                nudged == ~IterationRaised(ProviderCallSeq[n])
            IN  /\ NudgedWithinBound(earlier.temperature, later.temperature, nudged,
                                     F(900, 0), F(100, 0))
                /\ NudgedWithinBound(earlier.top_p, later.top_p, nudged,
                                     F(950, 0), F(50, 0))

\* Three provider calls of a run that started at temperature 0.85 and top_p
\* 0.9: the first nudge stopped both at their bounds, the second changed
\* nothing.
C14_Witness ==
    /\ InRun
    /\ Len(ProviderCallSeq) = 3
    /\ RetriedCalls = {1, 2}
    /\ history[ProviderCallSeq[1]].args.temperature = Some(F(850, 0))
    /\ history[ProviderCallSeq[1]].args.top_p = Some(F(900, 0))
    /\ history[ProviderCallSeq[2]].args.temperature = Some(F(900, 0))
    /\ history[ProviderCallSeq[2]].args.top_p = Some(F(950, 0))
    /\ history[ProviderCallSeq[3]].args.temperature = Some(F(900, 0))
    /\ history[ProviderCallSeq[3]].args.top_p = Some(F(950, 0))

\* The sampling parameters of request kw are at their bounds: temperature is
\* given and >= 0.9, top_p is absent or >= 0.95.
AtBounds(kw) ==
    /\ kw.temperature # None
    /\ FloatLeq(F(900, 0), kw.temperature[1])
    /\ kw.top_p # None => FloatLeq(F(950, 0), kw.top_p[1])

\* C15: the nudge has a fixed point at the bounds: applied to a request with
\* temperature >= 0.9 and top_p absent or >= 0.95 it returns the request
\* unchanged; and from a start with both parameters given, repeated
\* application brings the request to the bounds after finitely many steps,
\* where it stays.
C15_NudgeFixedPoint ==
    /\ [][AtBounds(Val(kwargs)) => kwargs' = kwargs]_vars
    /\ (Val(kwargs).temperature # None /\ Val(kwargs).top_p # None)
           => <>[]AtBounds(Val(kwargs))

\* The nudge was applied six times from temperature 0.5 and top_p 0.8: the
\* request is at 0.9 and 0.95.
C15_Witness ==
    /\ pc = "nudge"
    /\ attempt = 6
    /\ Val(kwargs).temperature = Some(F(900, 0))
    /\ Val(kwargs).top_p = Some(F(950, 0))

\* C16: within a run the calls are strictly sequential.  The evaluator is
\* called for attempt k only right after the provider call of attempt k
\* returned (so never for an attempt whose provider call raised), and the
\* provider is called for a later attempt only right after the previous
\* attempt ended: its evaluation returned or raised, or its provider call
\* raised.
C16_CallsSequential ==
    InRun =>
        /\ \A i \in EvaluatorCalls :
               /\ i > 1
               /\ history[i - 1].target = "provider"
               /\ history[i - 1].outcome = "returned"
               /\ history[i - 1].idx = history[i].idx
        /\ \A i \in ProviderCalls :
               i > 1 =>
                   /\ history[i - 1].idx < history[i].idx
                   /\ \/ history[i - 1].target = "evaluator"
                      \/ history[i - 1].outcome # "returned"
        /\ pc = "evaluator" =>
               /\ Len(history) > 0
               /\ history[Len(history)].target = "provider"
               /\ history[Len(history)].outcome = "returned"
               /\ history[Len(history)].idx = attempt
        /\ (pc = "provider" /\ Len(history) > 0) =>
               /\ history[Len(history)].idx < attempt
               /\ \/ history[Len(history)].target = "evaluator"
                  \/ history[Len(history)].outcome # "returned"

\* The evaluator is being called for the third attempt of a run whose first
\* provider call raised and whose second attempt was evaluated.
C16_Witness ==
    /\ InRun
    /\ pc = "evaluator"
    /\ attempt = 2
    /\ Len(history) = 4
    /\ history[1].target = "provider" /\ history[1].outcome # "returned"
    /\ history[2].target = "provider" /\ history[2].outcome = "returned"
    /\ history[3].target = "evaluator" /\ history[3].outcome = "returned"
    /\ history[4].target = "provider" /\ history[4].outcome = "returned"

\* Every call of the run so far returned: no provider call and no evaluation
\* raised.
AllCallsReturned ==
    \A i \in 1 .. Len(history) : history[i].outcome = "returned"

\* C17: if every attempt of a run completes and none of them gets a score that
\* is a number, the run goes through all max_retries + 1 attempts and then
\* fails with VizevalOpenAIError, returning no result.
C17_NoScoreFails ==
    (InRun /\ pc = "done" /\ AllCallsReturned /\ Scored(attempts) = {}) =>
        /\ raised = "VizevalOpenAIError"
        /\ result = None
        /\ Len(attempts) = Cfg.max_retries + 1
        /\ Cardinality(ProviderCalls) = Cfg.max_retries + 1
        /\ Cardinality(EvaluatorCalls) = Cfg.max_retries + 1

\* A run with three permitted attempts, each answered and each evaluated with
\* no score, has ended with VizevalOpenAIError.
C17_Witness ==
    /\ InRun
    /\ pc = "done"
    /\ AllCallsReturned
    /\ Cfg.max_retries = 2
    /\ Len(attempts) = 3
    /\ Scored(attempts) = {}
    /\ raised = "VizevalOpenAIError"

\* C18: every run ends, and in one of two ways: create() returns a
\* VizevalResult, or it raises VizevalOpenAIError and returns nothing.  No
\* exception of another type raised by a provider call or an evaluation
\* leaves create().
C18_ResultOrOpenAIError ==
    /\ [](InRun /\ pc = "done" =>
             \/ /\ raised = "none"
                /\ result # None
                /\ result[1].type = "VizevalResult"
             \/ /\ raised = "VizevalOpenAIError"
                /\ result = None)
    /\ (InRun /\ pc # "done") ~> (pc = "done")

\* A run has ended with VizevalOpenAIError and no result after an evaluation
\* raised VizevalAPIError on the last permitted attempt.
C18_Witness ==
    /\ InRun
    /\ pc = "done"
    /\ raised = "VizevalOpenAIError"
    /\ result = None
    /\ Len(history) > 0
    /\ history[Len(history)].target = "evaluator"
    /\ history[Len(history)].outcome = "VizevalAPIError"

\* evaluate() was called with an evaluator kind of the recognized set.
RecognizedKind ==
    kwargs # None /\ kwargs[1].evaluator \in {"medical", "juridical", "dummy"}

\* C19: evaluate() called with an evaluator kind outside the recognized set
\* raises VizevalConfigError without issuing a POST, whatever the other
\* arguments are.
C19_UnknownKindNoRequest ==
    (pc \in {"post", "done"} /\ ~RecognizedKind) =>
        /\ pc = "done"
        /\ raised = "VizevalConfigError"
        /\ result = None
        /\ history = << >>

\* evaluate(system_prompt="sys", ..., evaluator="unknown_kind") has raised
\* VizevalConfigError.
C19_Witness ==
    /\ pc = "done"
    /\ kwargs # None
    /\ kwargs[1].evaluator = "unknown_kind"
    /\ kwargs[1].system_prompt = "sys"
    /\ raised = "VizevalConfigError"
    /\ history = << >>

\* C20: for a recognized evaluator kind evaluate() issues exactly one POST.  A
\* transport failure raises VizevalAPIError; a status other than 201 raises
\* VizevalAPIError carrying that status code and the 'detail' of the remote
\* JSON body when there is one; a 201 whose body is a JSON object naming the
\* evaluator, with members of the declared types, returns an
\* EvaluationResponse.
C20_OnePostErrorsCarryStatus ==
    (pc = "done" /\ RecognizedKind) =>
        /\ Len(history) = 1
        /\ history[1].target = "post"
        /\ history[1].outcome # "returned" => raised = "VizevalAPIError" /\ result = None
        /\ (history[1].outcome = "returned" /\ response[1].status_code # 201) =>
               /\ raised = "VizevalAPIError"
               /\ result = None
               /\ error # None
               /\ error[1].status_code = Some(response[1].status_code)
               /\ (response[1].content = "object" /\ response[1].json.detail # None) =>
                      error[1].detail = response[1].json.detail
        /\ (history[1].outcome = "returned" /\ response[1].status_code = 201
                /\ response[1].content = "object" /\ response[1].json.evaluator # None
                /\ response[1].json.mistyped = {}) =>
               /\ raised = "none"
               /\ result # None
               /\ result[1].evaluator = response[1].json.evaluator[1]

\* evaluate() has ended after its POST came back with status 201.
Answered201 ==
    /\ pc = "done"
    /\ RecognizedKind
    /\ response # None
    /\ response[1].status_code = 201

\* The body of the 201 answer is malformed: not JSON, or JSON without an
\* 'evaluator' member (a JSON array has none), or with a member of the wrong
\* type.
MalformedBody ==
    \/ response[1].content \in {"text", "empty", "array"}
    \/ response[1].json.evaluator = None
    \/ response[1].json.mistyped # {}

\* C21: a malformed 201 answer surfaces from evaluate() as VizevalAPIError,
\* never as an exception of another type.
C21_MalformedIsAPIError ==
    (Answered201 /\ MalformedBody) => raised = "VizevalAPIError"

\* C22: evaluate() never returns an evaluation whose score lies outside
\* [0, 1]: a 201 answer with a score below 0 or above 1 ends in an error.
C22_ReturnedScoreInRange ==
    (pc = "done" /\ RecognizedKind /\ result # None) =>
        \/ result[1].score = None
        \/ 0 <= result[1].score[1] /\ result[1].score[1] <= 100

\* Request kw has a message list with a message of role user in it.
HasUserMessage(kw) ==
    /\ kw.messages # None
    /\ Len(kw.messages) = 1
    /\ \E i \in 1 .. Len(kw.messages[1]) : kw.messages[1][i].role = "user"

\* C23: with no configuration set (never configured, or after
\* disable_vizeval()), create() calls the provider exactly once with the
\* caller's arguments, calls no evaluator, and returns the provider's raw
\* response, not a VizevalResult; with a configuration set, a create() with a
\* user message runs the evaluation loop.
C23_NoConfigPassesThrough ==
    /\ (pc # "idle" /\ vizeval_config = None) =>
           /\ ~InRun
           /\ pc \in {"passthrough", "done"}
           /\ pc = "passthrough" => history = << >>
           /\ pc = "done" =>
                  /\ Len(history) = 1
                  /\ history[1].target = "provider"
                  /\ history[1].args = kwargs[1]
                  /\ history[1].outcome = "returned" =>
                         /\ raised = "none"
                         /\ result # None
                         /\ result[1].type = "ChatCompletion"
                         /\ result[1].attempts = << >>
    /\ (pc # "idle" /\ vizeval_config # None /\ HasUserMessage(kwargs[1])) =>
           /\ InRun
           /\ pc # "passthrough"

\* create(messages=[system, user], temperature=0.85) on a wrapper with no
\* configuration has returned the provider's response.
C23_Witness ==
    /\ pc = "done"
    /\ vizeval_config = None
    /\ HasUserMessage(kwargs[1])
    /\ kwargs[1].temperature = Some(F(850, 0))
    /\ Len(history) = 1
    /\ result # None
    /\ result[1].type = "ChatCompletion"

\* C24: passed_threshold(t) is True exactly when the score is a number and
\* score >= t, and is_success is True exactly when the score is a number; an
\* evaluation with no score passes no threshold.
C24_PassedThresholdIffScoreReaches ==
    (pc = "done" /\ kwargs # None /\ best_evaluation # None) =>
        LET score == best_evaluation[1].score
        IN  /\ kwargs[1].method = "passed_threshold" =>
                   result = Some(PyBool(score # None /\ score[1] >= kwargs[1].threshold))
            /\ kwargs[1].method = "is_success" => result = Some(PyBool(score # None))

\* passed_threshold(0.8) was read as True on an evaluation with score 0.8.
C24_Witness ==
    /\ pc = "done"
    /\ kwargs = Some([method |-> "passed_threshold", threshold |-> 80])
    /\ best_evaluation[1].score = Some(80)
    /\ result = Some(PyBool(TRUE))

\* The position in history of the last provider call of the run.
LastProviderCall == ProviderCallSeq[Len(ProviderCallSeq)]

\* C25: when the provider or the evaluator raises on an attempt that is not
\* the last one and there is no best-so-far, the run neither returns nor
\* raises: the loop index advances by one and the next provider call is
\* issued with the same conversation and the same sampling parameters as the
\* call of the failed attempt.
C25_RaiseWithoutBestRepeatsRequest ==
    InRun =>
        /\ (LastCallRaised /\ best_response = None
                /\ history[Len(history)].idx < Cfg.max_retries) =>
               /\ pc = "provider"
               /\ raised = "none"
               /\ result = None
               /\ attempt = history[Len(history)].idx + 1
               /\ kwargs = Some(history[LastProviderCall].args)
        /\ \A n \in 1 .. Len(ProviderCallSeq) - 1 :
               IterationRaised(ProviderCallSeq[n]) =>
                   /\ history[ProviderCallSeq[n + 1]].args = history[ProviderCallSeq[n]].args
                   /\ history[ProviderCallSeq[n + 1]].idx = history[ProviderCallSeq[n]].idx + 1

\* The second provider call of a run was made after the evaluator raised on
\* the first attempt, with the request of the first call.
C25_Witness ==
    /\ InRun
    /\ Len(ProviderCallSeq) = 2
    /\ Len(history) = 3
    /\ history[2].target = "evaluator"
    /\ history[2].outcome = "VizevalAPIError"
    /\ history[3].args = history[1].args
    /\ history[3].args.top_p # None

\* C26: every returned VizevalResult has a non-empty attempts list and a
\* final_evaluation with a score that is a number, and its final_response and
\* final_evaluation are the openai_response and the evaluation_response of
\* one and the same recorded attempt.
C26_FinalIsOneRecordedAttempt ==
    ReturnedResult =>
        /\ Len(Res.attempts) > 0
        /\ Res.final_evaluation # None
        /\ Res.final_evaluation[1].score # None
        /\ \E i \in 1 .. Len(Res.attempts) :
               /\ Res.attempts[i].evaluation_response = Res.final_evaluation[1]
               /\ Res.attempts[i].openai_response = Res.final_response

\* A result returned after three attempts whose final response is that of the
\* second attempt.
C26_Witness ==
    /\ ReturnedResult
    /\ Len(Res.attempts) = 3
    /\ Res.final_response = Res.attempts[2].openai_response
    /\ Res.final_evaluation = Some(Res.attempts[2].evaluation_response)
    /\ Res.attempts[3].score # None

\* C27: for every returned result whose recorded scores lie in [0, 1],
\* result.best_score equals final_evaluation.score, whether the run stopped on
\* a passing attempt, used up its attempts or broke off on an error.
C27_BestScoreIsFinalScore ==
    (ReturnedResult
        /\ \A i \in Scored(Res.attempts) :
               0 <= Res.attempts[i].score[1] /\ Res.attempts[i].score[1] <= 100) =>
        VizevalResult_best_score(Res) = Res.final_evaluation[1].score

\* A result returned after an evaluation raised on the third attempt: the
\* scores recorded were 0.6 and 0.5 and the final evaluation has 0.6.
C27_Witness ==
    /\ ReturnedResult
    /\ LastCallRaised
    /\ Len(Res.attempts) = 2
    /\ Res.attempts[1].score = Some(60)
    /\ Res.attempts[2].score = Some(50)
    /\ Res.final_evaluation[1].score = Some(60)

\* The number of attempts recorded before the call at history[i]: the
\* evaluations that returned before it (line 199 appends one record each).
RecordedBefore(i) ==
    Cardinality({ j \in 1 .. i - 1 :
                    history[j].target = "evaluator" /\ history[j].outcome = "returned" })

\* The double nearest to min(0.9, t0 + 0.1 * n).
ClosedFormTemperature(t0, n) ==
    LET sum == t0[1] + 100 * n
    IN  IF sum > 900 THEN F(900, 0) ELSE F(sum, 0)

\* The conversation of every provider call has the length of the first call's
\* conversation (the caller's) plus two per attempt recorded before it.
TwoMessagesPerRecord ==
    \A k \in 1 .. Len(ProviderCallSeq) :
        Len(Conversation(ProviderCallSeq[k])) =
            Len(Conversation(ProviderCallSeq[1])) + 2 * RecordedBefore(ProviderCallSeq[k])

\* C28 (as claimed): at every provider call of a run, with n the number of
\* attempts recorded so far, the conversation has len(original messages) + 2*n
\* messages and, for an original temperature t0 <= 0.9, the temperature is
\* min(0.9, t0 + 0.1*n).
C28_RequestIsClosedFormOfRecords ==
    (InRun /\ Len(ProviderCallSeq) > 0) =>
        /\ TwoMessagesPerRecord
        /\ LET t0 == history[ProviderCallSeq[1]].args.temperature
           IN  (t0 # None /\ FloatLeq(t0[1], F(900, 0))) =>
                   \A k \in 1 .. Len(ProviderCallSeq) :
                       history[ProviderCallSeq[k]].args.temperature =
                           Some(ClosedFormTemperature(t0[1], RecordedBefore(ProviderCallSeq[k])))

\* C28 (amended): at every provider call of a run, with n the number of
\* attempts recorded so far, the conversation has len(original messages) + 2*n
\* messages and, for an original temperature t0 <= 0.9, the temperature is t0
\* while n = 0 and afterwards the result of n steps in double arithmetic, each
\* taking a temperature t below 0.9 to min(0.9, t + 0.1) and leaving 0.9 alone:
\* a call made after an attempt that raised repeats the temperature of the
\* call before it, a call made after a recorded attempt takes one more step.
C28_RequestFollowsRecords ==
    (InRun /\ Len(ProviderCallSeq) > 0) =>
        /\ TwoMessagesPerRecord
        /\ LET t0 == history[ProviderCallSeq[1]].args.temperature
           IN  (t0 # None /\ FloatLeq(t0[1], F(900, 0))) =>
                   \A k \in 1 .. Len(ProviderCallSeq) - 1 :
                       LET t == history[ProviderCallSeq[k]].args.temperature
                           next == history[ProviderCallSeq[k + 1]].args.temperature
                           stepped == RecordedBefore(ProviderCallSeq[k + 1]) >
                                          RecordedBefore(ProviderCallSeq[k])
                       IN  /\ t # None
                           /\ next =
                                  IF stepped /\ t[1][1] < 900
                                  THEN LET sum == FloatAdd(t[1], F(100, 0))
                                       IN  Some(IF sum[1] > 900 THEN F(900, 0) ELSE sum)
                                  ELSE t

\* A run from temperature 0.6 whose first attempt raised and whose next two
\* were recorded: the provider calls carry 0.6, 0.6 and 0.7 and the request
\* built after the second record carries 0.7999999999999999.
C28_Witness ==
    /\ InRun
    /\ Len(ProviderCallSeq) = 3
    /\ IterationRaised(ProviderCallSeq[1])
    /\ history[ProviderCallSeq[1]].args.temperature = Some(F(600, 0))
    /\ history[ProviderCallSeq[2]].args.temperature = Some(F(600, 0))
    /\ history[ProviderCallSeq[3]].args.temperature = Some(F(700, 0))
    /\ RecordedBefore(ProviderCallSeq[3]) = 1
    /\ Len(Conversation(ProviderCallSeq[3])) = Len(Conversation(ProviderCallSeq[1])) + 2

\* C29: on every attempt of a run, the system prompt submitted to the
\* evaluator is the caller's original system prompt and the user prompt is the
\* concatenation of the caller's original user messages (the first provider
\* call carries the caller's conversation); neither changes between attempts.
C29_EvaluatorSeesOriginalPrompts ==
    InRun =>
        \A j \in EvaluatorCalls :
            LET original == _extract_prompts(Conversation(ProviderCallSeq[1]))
            IN  /\ history[j].args.system_prompt = original.system_prompt
                /\ history[j].args.user_prompt = original.user_prompt

\* The request dict ref as a value: its conversation read through the list
\* and the message dicts it names.
Deref(h, ref) ==
    LET items == h.lists[h.dicts[ref].messages]
    IN  [h.dicts[ref] EXCEPT !.messages = Some([i \in 1 .. Len(items) |-> h.messages[items[i]]])]

\* C30: a run never mutates the caller's request: no step of a run changes
\* the caller's message list object (list 1: same length, same items) or any
\* message dict the caller passed (the items of list 1: same contents), so
\* both are the same after create() returns or raises as before the call.
C30_CallerRequestUntouched ==
    [][ /\ Val(heap').lists[1] = Val(heap).lists[1]
        /\ \A i \in 1 .. Len(Val(heap).lists[1]) :
               Val(heap').messages[Val(heap).lists[1][i]] =
                   Val(heap).messages[Val(heap).lists[1][i]] ]_vars

\* A run that built two retry requests and ended: the request of the last
\* provider call has four messages more than the caller's list, which names
\* the two message dicts it named at the start.
C30_Witness ==
    /\ pc = "done"
    /\ heap # None
    /\ attempt = 2
    /\ Val(heap).lists[1] = << 1, 2 >>
    /\ Val(heap).dicts[Val(kwargs)].messages # 1
    /\ Len(Deref(Val(heap), Val(kwargs)).messages[1]) = 4 + Len(Val(heap).lists[1])

\* The provider calls (positions in ProviderCallSeq) whose evaluation returned
\* with no score.
UnscoredCalls ==
    { n \in 1 .. Len(ProviderCallSeq) :
        LET i == ProviderCallSeq[n]
        IN  /\ i < Len(history)
            /\ history[i + 1].target = "evaluator"
            /\ history[i + 1].outcome = "returned"
            /\ \E k \in 1 .. Len(attempts) :
                   /\ attempts[k].attempt_number = history[i].idx + 1
                   /\ attempts[k].score = None }

\* The request that follows the n-th provider call: that of the next provider
\* call, or the one waiting to be sent.
RequestAfter(n) ==
    IF n < Len(ProviderCallSeq) THEN history[ProviderCallSeq[n + 1]].args ELSE Val(kwargs)

\* C31: an attempt whose evaluation has a null score is recorded in attempts
\* (one record per evaluation that returned), is never the best-so-far and
\* never the final result; if attempts remain the run goes on with a request
\* that is the previous conversation plus an assistant message with the
\* response text and a system message, with temperature and top_p nudged as
\* after a below-threshold score.
C31_NullScoreRecordedNeverChosen ==
    InRun =>
        /\ Len(attempts) =
               Cardinality({ j \in EvaluatorCalls : history[j].outcome = "returned" })
        /\ \A k \in 1 .. Len(attempts) :
               attempts[k].score = None =>
                   /\ best_evaluation # Some(attempts[k].evaluation_response)
                   /\ best_response # Some(attempts[k].openai_response)
                   /\ ReturnedResult =>
                          /\ Res.final_evaluation # Some(attempts[k].evaluation_response)
                          /\ Res.final_response # attempts[k].openai_response
        /\ \A n \in UnscoredCalls :
               LET i == ProviderCallSeq[n]
                   next == RequestAfter(n)
               IN  history[i].idx < Cfg.max_retries =>
                       /\ n = Len(ProviderCallSeq) => pc = "provider"
                       /\ next.messages =
                              Some(Conversation(i) \o
                                   << Message("assistant", history[i + 1].args.response),
                                      Message("system", next.messages[1][Len(next.messages[1])].content) >>)
                       /\ next.temperature # None
                       /\ NudgedWithinBound(IF history[i].args.temperature = None
                                            THEN Some(F(700, 0))
                                            ELSE history[i].args.temperature,
                                            next.temperature, TRUE, F(900, 0), F(100, 0))
                       /\ NudgedWithinBound(history[i].args.top_p, next.top_p, TRUE,
                                            F(950, 0), F(50, 0))
                       /\ history[i].args.top_p = None => next.top_p = None

\* A returned result of three attempts: the first had no score and was
\* followed by a retry from temperature 0.6 to 0.7, the second scored 0.5 and
\* is the final result, the third had no score.
C31_Witness ==
    /\ ReturnedResult
    /\ Len(Res.attempts) = 3
    /\ Res.attempts[1].score = None
    /\ Res.attempts[2].score = Some(50)
    /\ Res.attempts[3].score = None
    /\ Res.final_response = Res.attempts[2].openai_response
    /\ history[ProviderCallSeq[1]].args.temperature = Some(F(600, 0))
    /\ history[ProviderCallSeq[2]].args.temperature = Some(F(700, 0))

\* C32: a retry leaves a sampling parameter the caller did not supply absent:
\* if the first provider call of a run (the caller's request) has no
\* temperature, no provider call of the run has one, and likewise for top_p.
C32_AbsentParametersStayAbsent ==
    (InRun /\ Len(ProviderCallSeq) > 0) =>
        \A n \in 1 .. Len(ProviderCallSeq) :
            /\ history[ProviderCallSeq[1]].args.temperature = None =>
                   history[ProviderCallSeq[n]].args.temperature = None
            /\ history[ProviderCallSeq[1]].args.top_p = None =>
                   history[ProviderCallSeq[n]].args.top_p = None

\* The request has no messages argument, an empty messages value, a messages
\* value that is not a list, or no message with role "user".
NotEvaluable(kw) ==
    \/ kw.messages = None
    \/ kw.messages[1] = << >>
    \/ Len(kw.messages) # 1
    \/ \A i \in 1 .. Len(kw.messages[1]) : kw.messages[1][i].role # "user"

\* C33: with a configuration set, a create() whose request is not evaluable
\* is passed to the provider exactly once, unchanged, with no evaluator call
\* and no retry, and when the provider returns, its raw response is returned,
\* not a VizevalResult.
C33_NotEvaluablePassesThrough ==
    (pc # "idle" /\ vizeval_config # None /\ NotEvaluable(kwargs[1])) =>
        /\ ~InRun
        /\ pc \in {"passthrough", "done"}
        /\ pc = "passthrough" => history = << >>
        /\ pc = "done" =>
               /\ Len(history) = 1
               /\ history[1].target = "provider"
               /\ history[1].args = kwargs[1]
               /\ history[1].outcome = "returned" =>
                      /\ raised = "none"
                      /\ result # None
                      /\ result[1].type = "ChatCompletion"
                      /\ result[1].attempts = << >>

\* create(messages=(user message,)) on a configured wrapper has returned the
\* provider's response: the tuple holds a user message but is not a list.
C33_Witness ==
    /\ pc = "done"
    /\ vizeval_config # None
    /\ kwargs[1].messages = NotAList(<< Message("user", "q1") >>)
    /\ Len(history) = 1
    /\ history[1].outcome = "returned"
    /\ result # None
    /\ result[1].type = "ChatCompletion"

\* C34: a run uses one configuration and one evaluator client for all of its
\* attempts, also when another thread calls set_vizeval_config() or
\* disable_vizeval() while it is in flight: every evaluation of the run is
\* asked of the same client object, for the evaluator kind of the run's
\* configuration, and the run makes at most max_retries + 1 provider calls.
C34_OneConfigOneClientPerRun ==
    InRun =>
        /\ \A j, k \in EvaluatorCalls : history[j].args.client = history[k].args.client
        /\ \A j \in EvaluatorCalls : history[j].args.evaluator = Cfg.evaluator
        /\ Len(ProviderCallSeq) <= Cfg.max_retries + 1

====
